---- MODULE Spec2Model ----
(***************************************************************************)
(* Model of native/rustreader/src/lib.rs: the extract_pdf NIF and its      *)
(* helper clean_pdf_controls.                                              *)
(*                                                                         *)
(* A Rust String is modelled as a sequence of characters (Unicode scalar   *)
(* values), each character a TLA+ string.  The three non-ASCII characters  *)
(* of the model are written "(TM)" (U+2122), "(C)" (U+00A9) and "(e')"     *)
(* (U+00E9); utf8_len gives the number of bytes of each in UTF-8.          *)
(***************************************************************************)
EXTENDS Integers, Sequences, FiniteSets, TLC

VARIABLES
    pc,               \* where the call is
    extraction,       \* what extract_file_to_string returns for the path
    content,          \* extract_pdf's locals, once it has run
    pre_chapter,
    chapter_content,
    texts,            \* the chunk texts (text, lib.rs:43 and 63), in order
    pages,            \* the pages vector before the filter
    result,           \* what extract_pdf returned
    text,             \* clean_pdf_controls's parameter
    cleaned,          \* what clean_pdf_controls returned
    passes            \* a string and the results of normalizing it again and again

vars == <<pc, extraction, content, pre_chapter, chapter_content, texts,
          pages, result, text, cleaned, passes>>

----------------------------------------------------------------------------
(* Bounds of the model.                                                    *)

\* chunk_size is 1500 in the source (lib.rs:34); the model scales it down
chunk_size == 3
\* the filter's threshold is 50 in the source (lib.rs:78); scaled down with it
min_length == 2
\* a raw text of the extractor is made of at most MaxFrags of PageFragments
MaxFrags == 3
\* a raw text given to the cleaner alone: at most MaxCleanFrags of CleanFragments
MaxCleanFrags == 3
\* a string given to the whitespace normalization alone: at most MaxWsLen characters
MaxWsLen == 6
\* ... which is then applied MaxPasses times
MaxPasses == 2

----------------------------------------------------------------------------
(* Sequences and characters.                                               *)

Min(S) == CHOOSE x \in S : \A y \in S : x <= y
Max(S) == CHOOSE x \in S : \A y \in S : x >= y

RECURSIVE Concat(_)
Concat(ss) == IF ss = <<>> THEN <<>> ELSE Head(ss) \o Concat(Tail(ss))

Repeat(c, n) == [i \in 1..n |-> c]

SeqsUpTo(S, n) == UNION {[1..m -> S] : m \in 0..n}

\* str::len(): the length of a string in bytes of its UTF-8 encoding
utf8_len(c) == CASE c = "(TM)" -> 3
                 [] c \in {"(C)", "(e')"} -> 2
                 [] OTHER -> 1

RECURSIVE str_len(_)
str_len(s) == IF s = <<>> THEN 0 ELSE utf8_len(Head(s)) + str_len(Tail(s))

\* char::is_whitespace, the Unicode White_Space property (str::trim, \s)
White_Space == {" ", "\n", "\t", "\r"}
\* \d
Digit == {"0", "1", "2", "3", "4", "5", "6", "7", "8", "9"}

----------------------------------------------------------------------------
(* The regex crate, for the constructs the source uses.  A regex is a      *)
(* sequence of alternatives (a|b), an alternative a sequence of items, an  *)
(* item a character class with a repetition range, matched greedily with   *)
(* backtracking (leftmost-first semantics).                                *)

Opt(cls)        == <<[cls |-> cls, min |-> 0, max |-> 1, unbounded |-> FALSE]>>
Star(cls)       == <<[cls |-> cls, min |-> 0, max |-> 0, unbounded |-> TRUE]>>
Plus(cls)       == <<[cls |-> cls, min |-> 1, max |-> 1, unbounded |-> TRUE]>>
AtLeast(cls, n) == <<[cls |-> cls, min |-> n, max |-> n, unbounded |-> TRUE]>>
Lit(s)          == [i \in 1..Len(s) |->
                      [cls |-> {s[i]}, min |-> 1, max |-> 1, unbounded |-> FALSE]]

\* the number of consecutive characters of s from position i up to position
\* last that are in cls
RunLen(s, i, last, cls) ==
    LET stops == {j \in i..last : s[j] \notin cls}
    IN  IF stops = {} THEN last + 1 - i ELSE Min(stops) - i

\* the position after the match of items k.. of alternative p at position i
\* of s, or 0 when they do not match there.  Item k takes as many characters
\* as it can (n, at first the longest run its range allows) and gives them
\* back one by one while the rest does not match.
RECURSIVE MatchItems(_, _, _, _), MatchTaking(_, _, _, _, _)
MatchItems(s, i, p, k) ==
    IF k > Len(p) THEN i
    ELSE IF p[k].min = 1 /\ p[k].max = 1 /\ ~p[k].unbounded
    THEN \* exactly one character of the class
         IF i <= Len(s) /\ s[i] \in p[k].cls
         THEN MatchItems(s, i + 1, p, k + 1) ELSE 0
    ELSE LET last == IF p[k].unbounded \/ Len(s) < i + p[k].max - 1
                     THEN Len(s) ELSE i + p[k].max - 1
             hi   == RunLen(s, i, last, p[k].cls)
         IN  IF hi < p[k].min THEN 0 ELSE MatchTaking(s, i, p, k, hi)

MatchTaking(s, i, p, k, n) ==
    LET rest == MatchItems(s, i + n, p, k + 1)
    IN  IF rest # 0 THEN rest
        ELSE IF n = p[k].min THEN 0
        ELSE MatchTaking(s, i, p, k, n - 1)

\* the position after the match of regex r at position i, trying the
\* alternatives a.. in order: the first that matches wins
RECURSIVE MatchAlt(_, _, _, _)
MatchAlt(s, i, r, a) ==
    IF a > Len(r) THEN 0
    ELSE LET e == MatchItems(s, i, r[a], 1)
         IN  IF e # 0 THEN e ELSE MatchAlt(s, i, r, a + 1)

MatchAt(s, i, r) == MatchAlt(s, i, r, 1)

\* Regex::find_at: the leftmost match starting at or after pos, as
\* <<start, end>> (end exclusive), or <<>> when there is none
RECURSIVE find_at(_, _, _)
find_at(r, s, pos) ==
    IF pos > Len(s) THEN <<>>
    ELSE LET e == MatchAt(s, pos, r)
         IN  IF e # 0 THEN <<pos, e>> ELSE find_at(r, s, pos + 1)

\* Regex::replace_all: every non-overlapping match, leftmost first, replaced
RECURSIVE ReplaceFrom(_, _, _, _)
ReplaceFrom(r, s, rep, pos) ==
    LET m == find_at(r, s, pos)
    IN  IF m = <<>> THEN SubSeq(s, pos, Len(s))
        ELSE SubSeq(s, pos, m[1] - 1) \o rep \o ReplaceFrom(r, s, rep, m[2])

replace_all(r, s, rep) == ReplaceFrom(r, s, rep, 1)

\* Regex::splitn: the pieces of s between matches, at most limit pieces, the
\* last one being the whole remainder
RECURSIVE SplitFrom(_, _, _, _)
SplitFrom(r, s, pos, limit) ==
    IF limit = 0 THEN <<>>
    ELSE IF limit = 1 THEN <<SubSeq(s, pos, Len(s))>>
    ELSE LET m == find_at(r, s, pos)
         IN  IF m = <<>> THEN <<SubSeq(s, pos, Len(s))>>
             ELSE <<SubSeq(s, pos, m[1] - 1)>> \o SplitFrom(r, s, m[2], limit - 1)

splitn(r, s, limit) == SplitFrom(r, s, 1, limit)

----------------------------------------------------------------------------
(* clean_pdf_controls                                                      *)

\* every character of the model; "." matches any of them but the newline
Letters == {"a", "b", "c", "d", "e", "f", "g", "h", "i", "k", "l", "m", "n",
            "o", "p", "r", "s", "t", "u", "v", "w", "y",
            "A", "B", "C", "D", "E", "F", "H", "I", "L", "N", "O", "P", "R",
            "S", "T", "U", "V", "W"}
Chars == Letters \cup Digit \cup White_Space
           \cup {".", "-", "/", "\"", "\\", "(TM)", "(C)", "(e')"}
AnyButNewline == Chars \ {"\n"}

patterns == <<
    \* Fit Page Full Scre[e]?
    <<Lit(<<"F", "i", "t", " ", "P", "a", "g", "e", " ", "F", "u", "l", "l",
            " ", "S", "c", "r", "e">>) \o Opt({"e"})>>,
    \* Navigate Contr
    <<Lit(<<"N", "a", "v", "i", "g", "a", "t", "e", " ", "C", "o", "n", "t",
            "r">>)>>,
    \* [n/]*Off Close Book
    <<Star({"n", "/"}) \o Lit(<<"O", "f", "f", " ", "C", "l", "o", "s", "e",
                                " ", "B", "o", "o", "k">>)>>,
    \* [ol]+ Internet
    <<Plus({"o", "l"}) \o Lit(<<" ", "I", "n", "t", "e", "r", "n", "e",
                                "t">>)>>,
    \* en O
    <<Lit(<<"e", "n", " ", "O">>)>>,
    \* n O
    <<Lit(<<"n", " ", "O">>)>>,
    \* Digital Interface by.*
    <<Lit(<<"D", "i", "g", "i", "t", "a", "l", " ", "I", "n", "t", "e", "r",
            "f", "a", "c", "e", " ", "b", "y">>) \o Star(AnyButNewline)>>,
    \* U\.S\. Patent Pending.*
    <<Lit(<<"U", ".", "S", ".", " ", "P", "a", "t", "e", "n", "t", " ", "P",
            "e", "n", "d", "i", "n", "g">>) \o Star(AnyButNewline)>>,
    \* (C) 2000 All Rights Reserved\.
    <<Lit(<<"(C)", " ", "2", "0", "0", "0", " ", "A", "l", "l", " ", "R", "i",
            "g", "h", "t", "s", " ", "R", "e", "s", "e", "r", "v", "e", "d",
            ".">>)>>,
    \* BookVirtual(TM)
    <<Lit(<<"B", "o", "o", "k", "V", "i", "r", "t", "u", "a", "l", "(TM)">>)>>,
    \* www\.bookvirtual\.com
    <<Lit(<<"w", "w", "w", ".", "b", "o", "o", "k", "v", "i", "r", "t", "u",
            "a", "l", ".", "c", "o", "m">>)>>,
    \* DOWN THE\s*\d+
    <<Lit(<<"D", "O", "W", "N", " ", "T", "H", "E">>) \o Star(White_Space)
        \o Plus(Digit)>>,
    \* RABBIT-HOLE\. \d+
    <<Lit(<<"R", "A", "B", "B", "I", "T", "-", "H", "O", "L", "E", ".",
            " ">>) \o Plus(Digit)>>,
    \* B \d+
    <<Lit(<<"B", " ">>) \o Plus(Digit)>> >>

\* a faulty variant: the match is deleted, which fuses the text on both sides of it
replacement_empty == <<>>

\* what each match of a pattern is replaced with (lib.rs:116)
replacement == <<" ">>

\* the loop over the pattern table (lib.rs:111-118): patterns k.. applied in
\* order, each to the result of the one before
RECURSIVE ApplyPatterns(_, _)
ApplyPatterns(s, k) ==
    IF k > Len(patterns) THEN s
    ELSE ApplyPatterns(replace_all(patterns[k], s, replacement), k + 1)

remove_artifacts(s) == ApplyPatterns(s, 1)

\* a faulty variant: two spaces become one, as a literal replace("  ", " ") would do
space_re_pair == <<Lit(<<" ", " ">>)>>

\* " +"
space_re == <<Plus({" "})>>
\* \n{3,}
newline_re == <<AtLeast({"\n"}, 3)>>

\* the whitespace normalization (lib.rs:120-126)
collapse_whitespace(s) ==
    replace_all(newline_re, replace_all(space_re, s, <<" ">>), <<"\n", "\n">>)

\* a faulty variant: the whitespace is normalized before the artifacts are removed
clean_pdf_controls_ws_first(s) == remove_artifacts(collapse_whitespace(s))

clean_pdf_controls(s) == collapse_whitespace(remove_artifacts(s))

----------------------------------------------------------------------------
(* serde_json, for the page objects the source builds and reads back.      *)

\* the decimal digits of n
RECURSIVE Decimal(_)
Decimal(n) ==
    LET d == <<"0", "1", "2", "3", "4", "5", "6", "7", "8", "9">>[(n % 10) + 1]
    IN  IF n < 10 THEN <<d>> ELSE Decimal(n \div 10) \o <<d>>

\* the characters of a string inside a JSON string literal
RECURSIVE json_escape(_)
json_escape(s) ==
    IF s = <<>> THEN <<>>
    ELSE LET c == Head(s)
             e == CASE c = "\"" -> <<"\\", "\"">>
                    [] c = "\\" -> <<"\\", "\\">>
                    [] c = "\n" -> <<"\\", "n">>
                    [] c = "\r" -> <<"\\", "r">>
                    [] c = "\t" -> <<"\\", "t">>
                    [] OTHER    -> <<c>>
         IN  e \o json_escape(Tail(s))

ObjOpen  == <<"{", "\"", "p", "a", "g", "e", "_", "n", "u", "m", "b", "e", "r",
              "\"", ":">>
ObjMid   == <<",", "\"", "t", "e", "x", "t", "_", "c", "o", "n", "t", "e", "n",
              "t", "\"", ":", "\"">>
ObjClose == <<"\"", "}">>

\* json!({"page_number": n, "text_content": t}).to_string(): the keys in
\* order, no spaces
page_json(n, t) == ObjOpen \o Decimal(n) \o ObjMid \o json_escape(t) \o ObjClose

StartsWithAt(j, pos, lit) ==
    /\ pos + Len(lit) - 1 <= Len(j)
    /\ \A i \in 1..Len(lit) : j[pos + i - 1] = lit[i]

RECURSIVE DecimalValue(_)
DecimalValue(ds) ==
    IF ds = <<>> THEN 0
    ELSE 10 * DecimalValue(SubSeq(ds, 1, Len(ds) - 1))
         + (CHOOSE v \in 0..9 : Decimal(v) = <<ds[Len(ds)]>>)

\* the body of a JSON string literal read from position i of j, up to its
\* closing quote: <<the string, the position of the closing quote>>, or <<>>
\* when the literal is malformed
RECURSIVE ReadString(_, _, _)
ReadString(j, i, acc) ==
    IF i > Len(j) THEN <<>>
    ELSE IF j[i] = "\"" THEN <<acc, i>>
    ELSE IF j[i] # "\\" THEN ReadString(j, i + 1, Append(acc, j[i]))
    ELSE IF i + 1 > Len(j) THEN <<>>
    ELSE LET c == j[i + 1]
         IN  CASE c = "n"  -> ReadString(j, i + 2, Append(acc, "\n"))
               [] c = "r"  -> ReadString(j, i + 2, Append(acc, "\r"))
               [] c = "t"  -> ReadString(j, i + 2, Append(acc, "\t"))
               [] c \in {"\"", "\\", "/"} -> ReadString(j, i + 2, Append(acc, c))
               [] OTHER    -> <<>>

\* serde_json::from_str::<Value> on a page object: the two fields, or
\* ok = FALSE when j is no such object
from_str(j) ==
    LET bad    == [ok |-> FALSE, page_number |-> 0, text_content |-> <<>>]
        numAt  == Len(ObjOpen) + 1
        nDigit == RunLen(j, numAt, Len(j), Digit)
        midAt  == numAt + nDigit
        strAt  == midAt + Len(ObjMid)
        str    == ReadString(j, strAt, <<>>)
    IN  IF ~StartsWithAt(j, 1, ObjOpen) \/ nDigit = 0 THEN bad
        ELSE IF ~StartsWithAt(j, midAt, ObjMid) THEN bad
        ELSE IF str = <<>> THEN bad
        ELSE IF ~(StartsWithAt(j, str[2], ObjClose) /\ str[2] + 1 = Len(j)) THEN bad
        ELSE [ok |-> TRUE,
              page_number |-> DecimalValue(SubSeq(j, numAt, midAt - 1)),
              text_content |-> str[1]]

----------------------------------------------------------------------------
(* extract_pdf                                                             *)

\* str::trim
trim(s) ==
    LET keep == {i \in 1..Len(s) : s[i] \notin White_Space}
    IN  IF keep = {} THEN <<>> ELSE SubSeq(s, Min(keep), Max(keep))

\* a faulty variant: slice::chunks_exact, which leaves the remainder out
chunks_exact(v, size) ==
    [k \in 1..(Len(v) \div size) |-> SubSeq(v, (k - 1) * size + 1, k * size)]

\* slice::chunks
chunks(v, size) ==
    [k \in 1..((Len(v) + size - 1) \div size) |->
        SubSeq(v, (k - 1) * size + 1,
               IF k * size < Len(v) THEN k * size ELSE Len(v))]

\* CHAPTER I|Down the Rabbit-Hole
re == << Lit(<<"C", "H", "A", "P", "T", "E", "R", " ", "I">>),
         Lit(<<"D", "o", "w", "n", " ", "t", "h", "e", " ", "R", "a", "b", "b",
               "i", "t", "-", "H", "o", "l", "e">>) >>

start_page == 8

\* (pre_chapter, chapter_content) (lib.rs:26-32)
split_chapter(c) ==
    LET parts == splitn(re, c, 2)
    IN  IF Len(parts) = 2
        THEN <<parts[1],
               <<"C", "H", "A", "P", "T", "E", "R", " ", "I">> \o parts[2]>>
        ELSE <<<<>>, c>>

\* the chunk texts of both loops, before trimming, in the order produced
chunk_texts(pre, chap) ==
    (IF pre # <<>> THEN chunks(pre, chunk_size) ELSE <<>>)
    \o (IF chap # <<>> THEN chunks(chap, chunk_size) ELSE <<>>)

\* a faulty variant: the chapter's chunks are numbered from 1 like the others
chapter_page_number_from_one(i) == i + 1

\* the page number given to the i-th (from 0) chunk of each loop
pre_page_number(i) == i + 1
chapter_page_number(i) == start_page + i

\* the pages vector after both loops (lib.rs:35-70)
build_pages(pre, chap) ==
    LET pre_chunks  == IF pre # <<>> THEN chunks(pre, chunk_size) ELSE <<>>
        chap_chunks == IF chap # <<>> THEN chunks(chap, chunk_size) ELSE <<>>
    IN  [i \in 1..Len(pre_chunks) |->
            page_json(pre_page_number(i - 1), trim(pre_chunks[i]))]
        \o [i \in 1..Len(chap_chunks) |->
            page_json(chapter_page_number(i - 1), trim(chap_chunks[i]))]

\* the filter's closure (lib.rs:75-82)
keep_page(p) ==
    LET json == from_str(p)
    IN  IF json.ok THEN str_len(json.text_content) >= min_length ELSE FALSE

\* a faulty variant: the surviving pages are renumbered 1, 2, ...
filter_pages_renumbered(ps) ==
    LET kept == SelectSeq(ps, keep_page)
    IN  [i \in 1..Len(kept) |-> page_json(i, from_str(kept[i]).text_content)]

filter_pages(ps) == SelectSeq(ps, keep_page)

\* format!("{:?}", metadata)
format_debug(m) == <<"{">> \o m \o <<"}">>

\* "Extraction failed: {}"
extraction_failed(e) ==
    <<"E", "x", "t", "r", "a", "c", "t", "i", "o", "n", " ", "f", "a", "i",
      "l", "e", "d", ":", " ">> \o e

\* a faulty variant: a failed extraction is returned as an empty document
extract_result_swallow(ext, filtered) ==
    <<"Ok", <<filtered, format_debug(ext.metadata)>>>>

\* the value of the match (lib.rs:16-88)
extract_result(ext, filtered) ==
    IF ext.ok THEN <<"Ok", <<filtered, format_debug(ext.metadata)>>>>
    ELSE <<"Err", extraction_failed(ext.error)>>

\* the raw texts the extractor returns in the model: a block of chunk_size
\* characters, a front matter of start_page - 1 blocks, single characters
\* (one of two bytes), an artifact and the two chapter markers
PageFragments == {
    Repeat("a", chunk_size), Repeat("a", (start_page - 1) * chunk_size),
    <<"a">>, <<" ">>, <<"\n">>, <<"(e')">>, <<"B", " ", "1">>,
    <<"C", "H", "A", "P", "T", "E", "R", " ", "I">>,
    <<"D", "o", "w", "n", " ", "t", "h", "e", " ", "R", "a", "b", "b", "i",
      "t", "-", "H", "o", "l", "e">> }

RawTexts == {Concat(fs) : fs \in SeqsUpTo(PageFragments, MaxFrags)}

Metadatas == {<<"t", "i", "t", "l", "e">>}
Errors == {<<"I", "O">>, <<"P", "a", "r", "s", "e">>}

\* what extract_file_to_string returns for the path
Extractions ==
    {[ok |-> TRUE, raw_content |-> r, metadata |-> m, error |-> <<>>] :
        r \in RawTexts, m \in Metadatas}
    \cup {[ok |-> FALSE, raw_content |-> <<>>, metadata |-> <<>>, error |-> e] :
        e \in Errors}

NoCall == <<"-">>

Init ==
    /\ pc = "call"
    /\ extraction \in Extractions
    /\ content = NoCall /\ pre_chapter = NoCall /\ chapter_content = NoCall
    /\ texts = NoCall /\ pages = NoCall /\ result = NoCall
    /\ text = NoCall /\ cleaned = NoCall /\ passes = NoCall

\* the Ok arm (lib.rs:17-86)
extract_pdf_ok ==
    /\ pc = "call"
    /\ extraction.ok
    /\ content' = clean_pdf_controls(extraction.raw_content)
    /\ LET parts == split_chapter(content')
       IN  pre_chapter' = parts[1] /\ chapter_content' = parts[2]
    /\ texts' = chunk_texts(pre_chapter', chapter_content')
    /\ pages' = build_pages(pre_chapter', chapter_content')
    /\ result' = extract_result(extraction, filter_pages(pages'))
    /\ pc' = "returned"
    /\ UNCHANGED <<extraction, text, cleaned, passes>>

\* the Err arm (lib.rs:87)
extract_pdf_err ==
    /\ pc = "call"
    /\ ~extraction.ok
    /\ result' = extract_result(extraction, <<>>)
    /\ pc' = "returned"
    /\ UNCHANGED <<extraction, content, pre_chapter, chapter_content, texts,
                   pages, text, cleaned, passes>>

Next == extract_pdf_ok \/ extract_pdf_err

Spec == Init /\ [][Next]_vars

----------------------------------------------------------------------------
(* The cleaner on its own: clean_pdf_controls applied to a raw text.       *)

CleanFragments == {
    <<" ">>, <<"\n">>, <<"n">>, <<"O">>, <<"1">>, <<"B", " ", "1">>,
    <<"D", "O", "W", "N", " ", "T", "H", "E">>,
    <<"D", "i", "g", "i", "t", "a", "l", " ", "I", "n", "t", "e", "r", "f", "a",
      "c", "e", " ", "b", "y">>,
    <<"B", "o", "o", "k">>, <<"V", "i", "r", "t", "u", "a", "l", "(TM)">>,
    <<"w", "w", "w", ".", "b", "o", "o", "k">>,
    <<"v", "i", "r", "t", "u", "a", "l", ".", "c", "o", "m">> }

CleanTexts == {Concat(fs) : fs \in SeqsUpTo(CleanFragments, MaxCleanFrags)}

InitClean ==
    /\ pc = "clean"
    /\ text \in CleanTexts
    /\ cleaned = NoCall
    /\ extraction = NoCall /\ content = NoCall /\ pre_chapter = NoCall
    /\ chapter_content = NoCall /\ texts = NoCall /\ pages = NoCall
    /\ result = NoCall /\ passes = NoCall

CleanCall ==
    /\ pc = "clean"
    /\ cleaned' = clean_pdf_controls(text)
    /\ pc' = "cleaned"
    /\ UNCHANGED <<extraction, content, pre_chapter, chapter_content, texts,
                   pages, result, text, passes>>

NextClean == CleanCall

SpecClean == InitClean /\ [][NextClean]_vars

----------------------------------------------------------------------------
(* The whitespace normalization on its own (lib.rs:120-126), applied to    *)
(* any string and then to its own result.                                  *)

WsChars == {" ", "\n", "a"}

InitWs ==
    /\ pc = "normalize"
    /\ passes \in {<<s>> : s \in SeqsUpTo(WsChars, MaxWsLen)}
    /\ extraction = NoCall /\ content = NoCall /\ pre_chapter = NoCall
    /\ chapter_content = NoCall /\ texts = NoCall /\ pages = NoCall
    /\ result = NoCall /\ text = NoCall /\ cleaned = NoCall

Normalize ==
    /\ pc = "normalize"
    /\ Len(passes) <= MaxPasses
    /\ passes' = Append(passes, collapse_whitespace(passes[Len(passes)]))
    /\ UNCHANGED <<pc, extraction, content, pre_chapter, chapter_content,
                   texts, pages, result, text, cleaned>>

NextWs == Normalize

SpecWs == InitWs /\ [][NextWs]_vars

----------------------------------------------------------------------------
(* Properties.                                                             *)

ReturnedOk == pc = "returned" /\ result[1] = "Ok"
\* the pages extract_pdf returned
emitted == result[2][1]
PageNumber(p) == from_str(p).page_number
TextContent(p) == from_str(p).text_content

\* regex r matches somewhere in s
is_match(r, s) == find_at(r, s, 1) # <<>>

\* s holds n consecutive characters c
HasRun(s, c, n) ==
    \E i \in 1..(Len(s) + 1 - n) : \A j \in 0..(n - 1) : s[i + j] = c

\* a is b with some of its elements left out
RECURSIVE IsSubsequence(_, _)
IsSubsequence(a, b) ==
    IF a = <<>> THEN TRUE
    ELSE IF b = <<>> THEN FALSE
    ELSE IF Head(a) = Head(b) THEN IsSubsequence(Tail(a), Tail(b))
    ELSE IsSubsequence(a, Tail(b))

\* C1: the page numbers of the returned pages, in the order returned, are
\* strictly increasing.
C1_StrictlyIncreasing ==
    ReturnedOk =>
        \A i \in 1..(Len(emitted) - 1) :
            PageNumber(emitted[i]) < PageNumber(emitted[i + 1])

HasMinChars(p) == Len(TextContent(p)) >= min_length
C3_CharacterFilter == ReturnedOk => emitted = SelectSeq(pages, HasMinChars)

\* C4: the chunk texts, before trimming, concatenated in the order produced,
\* are the cleaned text.
C4_Coverage == ReturnedOk => Concat(texts) = content

C6_ErrorIffExtractionFails ==
    pc = "returned" =>
        /\ result[1] = "Err" <=> ~extraction.ok
        /\ ~extraction.ok =>
              /\ Len(result) = 2
              /\ result[2] = extraction_failed(extraction.error)
        /\ extraction.ok =>
              /\ result[1] = "Ok"
              /\ Len(result[2]) = 2
              /\ \A i \in 1..Len(result[2][1]) : from_str(result[2][1][i]).ok
              /\ result[2][2] = format_debug(extraction.metadata)

\* a failed extraction has returned
C6_Witness == pc = "returned" /\ ~extraction.ok /\ result[1] = "Err"

\* C7: normalizing the whitespace of a normalized string changes nothing.
C7_Idempotent == Len(passes) >= 3 => passes[3] = passes[2]

\* a string with a run of spaces and a run of newlines was normalized twice
C7_Witness ==
    /\ pc = "normalize"
    /\ Len(passes) = 3
    /\ HasRun(passes[1], " ", 2)
    /\ HasRun(passes[1], "\n", 3)
    /\ passes[2] # passes[1]

\* C8: the returned pages are pages of the vector before the filter, in its
\* order and as they were built.
C8_FilterKeepsPages ==
    ReturnedOk =>
        /\ IsSubsequence(emitted, pages)
        /\ \A i \in 1..Len(emitted) : keep_page(emitted[i])

\* a page between two returned pages was dropped, and the later one kept its
\* number
C8_Witness ==
    /\ ReturnedOk
    /\ \E i, j, k \in 1..Len(pages) :
          /\ i < j /\ j < k
          /\ keep_page(pages[i]) /\ ~keep_page(pages[j]) /\ keep_page(pages[k])
          /\ PageNumber(pages[j]) = PageNumber(pages[i]) + 1
          /\ \E e \in 1..(Len(emitted) - 1) :
                emitted[e] = pages[i] /\ emitted[e + 1] = pages[k]

\* C9: the cleaned text holds no two consecutive spaces and no three
\* consecutive newlines.
C9_NoRuns ==
    pc = "cleaned" => ~HasRun(cleaned, " ", 2) /\ ~HasRun(cleaned, "\n", 3)

\* removing an artifact left a run of spaces, which the result does not hold
C9_Witness ==
    /\ pc = "cleaned"
    /\ ~HasRun(text, " ", 2)
    /\ HasRun(remove_artifacts(text), " ", 2)

\* C10 as stated: no pattern of the table matches anywhere in the cleaned
\* text.
C10_NoArtifactLeft ==
    pc = "cleaned" => \A k \in 1..Len(patterns) : ~is_match(patterns[k], cleaned)

\* the patterns that hold no space: BookVirtual(TM) and www\.bookvirtual\.com
SpaceFree == {k \in 1..Len(patterns) :
                \A a \in 1..Len(patterns[k]) : \A i \in 1..Len(patterns[k][a]) :
                    " " \notin patterns[k][a][i].cls}

\* C10 as amended: no pattern that holds no space matches anywhere in the
\* cleaned text.
C10_NoSpaceFreeArtifactLeft ==
    pc = "cleaned" => \A k \in SpaceFree : ~is_match(patterns[k], cleaned)

\* a raw text that held such an artifact was cleaned
C10_Witness ==
    /\ pc = "cleaned"
    /\ \E k \in SpaceFree : is_match(patterns[k], text)

====
